---- MODULE Spec2Model ----
(***************************************************************************)
(* docs/release_summary.py of iced-rs/iced: the branch-diff release        *)
(* summary (Pipeline A), and the closed-pull-request pagination of the     *)
(* milestone summary (Pipeline B).                                         *)
(*                                                                         *)
(* Text (str) is a sequence of one-character strings.  stdout is the       *)
(* sequence of the payloads of the print calls, in order.                  *)
(***************************************************************************)
EXTENDS Integers, Sequences, FiniteSets, TLC

(* ------------------------------ bounds -------------------------------- *)
\* most commits the compare response carries
MaxCommits == 2
\* most entries of sys.argv (script name included)
MaxArgc == 3
\* most pages the remote holds before its trailing empty pages
MaxPages == 2
\* most pull requests on one page
MaxPerPage == 2

(* ------------------------------ characters ---------------------------- *)
UPPER == <<"A","B","C","D","E","F","G","H","I","J","K","L","M",
           "N","O","P","Q","R","S","T","U","V","W","X","Y","Z">>
LOWER == <<"a","b","c","d","e","f","g","h","i","j","k","l","m",
           "n","o","p","q","r","s","t","u","v","w","x","y","z">>
DIGITS == <<"0","1","2","3","4","5","6","7","8","9">>

IndexOf(alphabet, c) == CHOOSE i \in 1..Len(alphabet) : alphabet[i] = c
IsIn(alphabet, c) == \E i \in 1..Len(alphabet) : alphabet[i] = c

\* Unicode code point of a character (ASCII letters, digits; the rest of the
\* characters used here lie below the digits)
ord(c) ==
    IF IsIn(UPPER, c) THEN 64 + IndexOf(UPPER, c)
    ELSE IF IsIn(LOWER, c) THEN 96 + IndexOf(LOWER, c)
    ELSE IF IsIn(DIGITS, c) THEN 47 + IndexOf(DIGITS, c)
    ELSE IF c = "\n" THEN 10
    ELSE IF c = " " THEN 32
    ELSE IF c = "#" THEN 35
    ELSE IF c = "-" THEN 45
    ELSE IF c = "/" THEN 47
    ELSE IF c = "@" THEN 64
    ELSE 46

\* case folding of one character
fold(c) == IF IsIn(UPPER, c) THEN LOWER[IndexOf(UPPER, c)] ELSE c

\* str.casefold
casefold(s) == [i \in 1..Len(s) |-> fold(s[i])]

\* str < str : lexicographic on code points
RECURSIVE str_lt(_, _)
str_lt(a, b) ==
    IF b = <<>> THEN FALSE
    ELSE IF a = <<>> THEN TRUE
    ELSE IF ord(Head(a)) # ord(Head(b)) THEN ord(Head(a)) < ord(Head(b))
    ELSE str_lt(Tail(a), Tail(b))

\* int(text) of a run of decimal digits
RECURSIVE int(_)
int(ds) ==
    IF ds = <<>> THEN 0
    ELSE int(SubSeq(ds, 1, Len(ds) - 1)) * 10 + (IndexOf(DIGITS, ds[Len(ds)]) - 1)

\* str(n) of a natural number, as an f-string formats it
RECURSIVE str(_)
str(n) == IF n < 10 THEN <<DIGITS[n + 1]>> ELSE str(n \div 10) \o <<DIGITS[(n % 10) + 1]>>

(* --------------------------- PR_COMMIT_REGEX --------------------------- *)
\* a pattern that lost its leading "Merge ": r"(?i)pull request #(\d+).*"
RegexWithoutMerge ==
    <<"p","u","l","l"," ","r","e","q","u","e","s","t"," ","#">>

\* the literal part of r"(?i)Merge pull request #(\d+).*"
PR_COMMIT_REGEX ==
    <<"M","e","r","g","e"," ","p","u","l","l"," ",
      "r","e","q","u","e","s","t"," ","#">>

\* one literal character of the pattern against one character of the text,
\* without the (?i) flag
CharMatchesExact(p, c) == p = c

\* one literal character of the pattern against one character of the text,
\* under the (?i) flag
CharMatches(p, c) == fold(p) = fold(c)

\* the literal matches the text at position i
LiteralAt(s, i) ==
    /\ i + Len(PR_COMMIT_REGEX) - 1 <= Len(s)
    /\ \A k \in 1..Len(PR_COMMIT_REGEX) : CharMatches(PR_COMMIT_REGEX[k], s[i + k - 1])

\* \d+ is greedy: the first position after the run of digits that starts at j
RECURSIVE DigitsEnd(_, _)
DigitsEnd(s, j) ==
    IF j <= Len(s) /\ IsIn(DIGITS, s[j]) THEN DigitsEnd(s, j + 1) ELSE j

NoMatch == [matched |-> FALSE, group1 |-> <<>>]

\* one attempt of the pattern at position i; the trailing .* always matches
MatchAt(s, i) ==
    IF LiteralAt(s, i)
    THEN LET j == i + Len(PR_COMMIT_REGEX)
             e == DigitsEnd(s, j)
         IN  IF e > j THEN [matched |-> TRUE, group1 |-> SubSeq(s, j, e - 1)]
             ELSE NoMatch
    ELSE NoMatch

\* Pattern.search: the leftmost position at which an attempt succeeds
RECURSIVE SearchFrom(_, _)
SearchFrom(s, i) ==
    IF i > Len(s) THEN NoMatch
    ELSE IF MatchAt(s, i).matched THEN MatchAt(s, i)
    ELSE SearchFrom(s, i + 1)

search(s) == SearchFrom(s, 1)

(* ------------------------------- inputs -------------------------------- *)
\* commit messages the compare response may carry
Messages == {
    \* "merge PULL Request #7\nfix"
    <<"m","e","r","g","e"," ","P","U","L","L"," ","R","e","q","u","e","s","t"," ","#","7","\n","f","i","x">>,
    \* "x\nMerge pull request #07"
    <<"x","\n","M","e","r","g","e"," ","p","u","l","l"," ","r","e","q","u","e","s","t"," ","#","0","7">>,
    \* "Merge pull request #42 from a/b\nMerge pull request #7"
    <<"M","e","r","g","e"," ","p","u","l","l"," ","r","e","q","u","e","s","t"," ","#","4","2"," ","f","r","o","m"," ","a","/","b","\n","M","e","r","g","e"," ","p","u","l","l"," ","r","e","q","u","e","s","t"," ","#","7">>,
    \* "Fix typo"
    <<"F","i","x"," ","t","y","p","o">>,
    \* "Close pull request #42"
    <<"C","l","o","s","e"," ","p","u","l","l"," ","r","e","q","u","e","s","t"," ","#","4","2">>,
    \* "Merge pull request #x\nmerge pull request #9"
    <<"M","e","r","g","e"," ","p","u","l","l"," ","r","e","q","u","e","s","t"," ","#","x","\n","m","e","r","g","e"," ","p","u","l","l"," ","r","e","q","u","e","s","t"," ","#","9">> }

Commits == {[commit |-> [message |-> m]] : m \in Messages}

\* the lists of commits of a compare response
CommitLists == UNION {[1..n -> Commits] : n \in 0..MaxCommits}

\* HTTP status codes the remote answers with
Statuses == {200, 404}

\* HTTP status codes the compare request is answered with
CompareStatuses == Statuses \cup {204}

\* a "get pull request" body
PullBody(k, login) ==
    [title |-> <<"F","i","x">>, number |-> k,
     html_url |-> <<"/","p","u","l","l","/">> \o str(k), user |-> [login |-> login]]

\* the bodies of a "get pull request" answer to a request for number n: the
\* remote's own number for the record need not be the one asked for
PullBodies(n) ==
    { PullBody(n, <<"B","o","b">>),
      PullBody(n, <<"a","l","i","c","e">>),
      PullBody(n + 1, <<"A","l","i","c","e">>) }

\* the body of an answer that carries no pull request
ErrorBody == [title |-> <<>>, number |-> 0, html_url |-> <<>>, user |-> [login |-> <<>>]]

\* sys.argv: the script name, then the arguments given
ArgvEntry(k) ==
    IF k = 1 THEN "release_summary.py"
    ELSE IF k = 2 THEN "token" ELSE IF k = 3 THEN "0.13" ELSE "extra"
Argvs == {[k \in 1..n |-> ArgvEntry(k)] : n \in 1..MaxArgc}

(* --------------------------- printed lines ----------------------------- *)
\* the usage text, kept as one piece
USAGE == <<"Usage: python release_summary.py <personal_access_token> <previous_release_branch>">>
QueryingLine(n) == <<"Q","u","e","r","y","i","n","g"," ","P","R"," ">> \o str(n)
ErrorFetchingLine(n, status) == <<"E","r","r","o","r"," ","f","e","t","c","h","i","n","g"," ","P","R"," ">> \o str(n) \o <<":"," ">> \o str(status)
ErrorComparingLine(status) == <<"E","r","r","o","r"," ","c","o","m","p","a","r","i","n","g"," ","b","r","a","n","c","h","e","s",":"," ">> \o str(status)
AUTHORS_HEADER == <<"\n","A","u","t","h","o","r","s",":">>
\* f"- {pr[0]}. [#{pr[1]}]({pr[2]})"
PrLine(pr) == <<"-"," ">> \o pr[1] \o <<"."," ","[","#">> \o str(pr[2]) \o <<"]","(">> \o pr[3] \o <<")">>
\* f"- @{author}"
AuthorLine(author) == <<"-"," ","@">> \o author

(* ------------------------------- state --------------------------------- *)
VARIABLES
    pc,                 \* where the script stands
    argv,               \* sys.argv
    stdout,             \* what print has written, one entry per call
    exit_code,          \* <<>> while running, <<c>> once the process ended with c
    requests,           \* the requests.get calls issued so far, in order
    compare_response,   \* the answer to the compare request
    i,                  \* position of the for loop in compare_data["commits"]
    pr_number,          \* the number parsed from the current commit
    pr_responses,       \* the answers to the pull-request lookups, in order
    prs,                \* the list get_merged_prs_since_release builds
    merged_prs,         \* the list __main__ received
    pcB,                \* Pipeline B: where the fetcher stands
    pages,              \* Pipeline B: the remote's pages of closed pull requests
    page,               \* Pipeline B: the page number asked for next
    all_prs,            \* Pipeline B: the records accumulated
    requestsB           \* Pipeline B: the page numbers requested, in order

varsA == <<pc, argv, stdout, exit_code, requests, compare_response, i, pr_number,
           pr_responses, prs, merged_prs>>
varsB == <<pcB, pages, page, all_prs, requestsB>>
vars == <<varsA, varsB>>

NoResponse == [status_code |-> 0, commits |-> <<>>]

\* Pipeline A before it starts
IdleA ==
    /\ pc = "idle"
    /\ argv = <<>>
    /\ stdout = <<>>
    /\ exit_code = <<>>
    /\ requests = <<>>
    /\ compare_response = NoResponse
    /\ i = 0
    /\ pr_number = 0
    /\ pr_responses = <<>>
    /\ prs = <<>>
    /\ merged_prs = <<>>

\* Pipeline B before it starts
IdleB ==
    /\ pcB = "idle"
    /\ pages = <<>>
    /\ page = 0
    /\ all_prs = <<>>
    /\ requestsB = <<>>

Init ==
    /\ pc = "start"
    /\ argv \in Argvs
    /\ stdout = <<>>
    /\ exit_code = <<>>
    /\ requests = <<>>
    /\ compare_response = NoResponse
    /\ i = 0
    /\ pr_number = 0
    /\ pr_responses = <<>>
    /\ prs = <<>>
    /\ merged_prs = <<>>
    /\ IdleB

(* ------------------------------ Pipeline A ----------------------------- *)
\* len(sys.argv) < 2
TooFewArgsOffByOne(av) == Len(av) < 2

\* len(sys.argv) < 3
TooFewArgs(av) == Len(av) < 3

\* lines 6-8: the argument check at import time
CheckArgs ==
    /\ pc = "start"
    /\ IF TooFewArgs(argv)
       THEN /\ stdout' = Append(stdout, USAGE)
            /\ exit_code' = <<1>>
            /\ pc' = "exited"
       ELSE /\ pc' = "main"
            /\ UNCHANGED <<stdout, exit_code>>
    /\ UNCHANGED <<argv, requests, compare_response, i, pr_number, pr_responses,
                   prs, merged_prs, varsB>>

\* lines 51-53 and 15-17: __main__ reads sys.argv[2] (IndexError, an uncaught
\* exception, when it is absent) and the function issues the compare request
Main ==
    /\ pc = "main"
    /\ IF Len(argv) < 3
       THEN /\ exit_code' = <<1>>
            /\ pc' = "exited"
            /\ UNCHANGED <<requests, prs>>
       ELSE /\ prs' = <<>>
            /\ requests' = Append(requests,
                   [endpoint |-> "compare", repo |-> "iced-rs/iced",
                    base |-> argv[3], number |-> 0])
            /\ pc' = "await_compare"
            /\ UNCHANGED exit_code
    /\ UNCHANGED <<argv, stdout, compare_response, i, pr_number, pr_responses,
                   merged_prs, varsB>>

\* a compare answer whose failure raises instead of being reported
CompareResponseRaises ==
    /\ pc = "await_compare"
    /\ \E status \in CompareStatuses, cs \in CommitLists :
         /\ compare_response' =
                [status_code |-> status, commits |-> IF status = 200 THEN cs ELSE <<>>]
         /\ IF status = 200
            THEN /\ i' = 1
                 /\ pc' = "loop"
                 /\ UNCHANGED <<stdout, exit_code>>
            ELSE /\ exit_code' = <<1>>
                 /\ pc' = "exited"
                 /\ UNCHANGED <<stdout, i>>
    /\ UNCHANGED <<argv, requests, pr_number, pr_responses, prs, merged_prs, varsB>>

\* lines 17-20, 35-36: the compare answer arrives
CompareResponse ==
    /\ pc = "await_compare"
    /\ \E status \in CompareStatuses, cs \in CommitLists :
         /\ compare_response' =
                [status_code |-> status, commits |-> IF status = 200 THEN cs ELSE <<>>]
         /\ IF status = 200
            THEN /\ i' = 1
                 /\ pc' = "loop"
                 /\ UNCHANGED stdout
            ELSE /\ stdout' = Append(stdout, ErrorComparingLine(status))
                 /\ pc' = "return"
                 /\ UNCHANGED i
    /\ UNCHANGED <<argv, exit_code, requests, pr_number, pr_responses, prs,
                   merged_prs, varsB>>

\* lines 21-28: one commit of the loop is parsed; a merge commit's pull
\* request is asked for, any other commit is passed over
ForCommit ==
    /\ pc = "loop"
    /\ i <= Len(compare_response.commits)
    /\ LET m == search(compare_response.commits[i].commit.message) IN
         IF m.matched
         THEN /\ pr_number' = int(m.group1)
              /\ stdout' = Append(stdout, QueryingLine(pr_number'))
              /\ requests' = Append(requests,
                     [endpoint |-> "pulls", repo |-> "iced-rs/iced",
                      base |-> "", number |-> pr_number'])
              /\ pc' = "await_pr"
              /\ UNCHANGED i
         ELSE /\ i' = i + 1
              /\ UNCHANGED <<pr_number, stdout, requests, pc>>
    /\ UNCHANGED <<argv, exit_code, compare_response, pr_responses, prs,
                   merged_prs, varsB>>

\* the tuple built from the answer's own number
EntryFromBody(pr_data, n) ==
    <<pr_data.title, pr_data.number, pr_data.html_url, pr_data.user.login>>

\* line 32: the tuple appended for a resolved pull request
Entry(pr_data, n) ==
    <<pr_data.title, n, pr_data.html_url, pr_data.user.login>>

\* a lookup answer whose failure ends the loop
PrResponseBreaks ==
    /\ pc = "await_pr"
    /\ \E status \in Statuses :
       \E pr_data \in (IF status = 200 THEN PullBodies(pr_number) ELSE {ErrorBody}) :
         /\ pr_responses' = Append(pr_responses,
                [commit |-> i, status_code |-> status, json |-> pr_data])
         /\ IF status = 200
            THEN /\ prs' = Append(prs, Entry(pr_data, pr_number))
                 /\ pc' = "loop"
                 /\ UNCHANGED stdout
            ELSE /\ stdout' = Append(stdout, ErrorFetchingLine(pr_number, status))
                 /\ pc' = "return"
                 /\ UNCHANGED prs
    /\ i' = i + 1
    /\ UNCHANGED <<argv, exit_code, requests, compare_response, pr_number,
                   merged_prs, varsB>>

\* lines 28-34: the lookup answer arrives
PrResponse ==
    /\ pc = "await_pr"
    /\ \E status \in Statuses :
       \E pr_data \in (IF status = 200 THEN PullBodies(pr_number) ELSE {ErrorBody}) :
         /\ pr_responses' = Append(pr_responses,
                [commit |-> i, status_code |-> status, json |-> pr_data])
         /\ IF status = 200
            THEN /\ prs' = Append(prs, Entry(pr_data, pr_number))
                 /\ UNCHANGED stdout
            ELSE /\ stdout' = Append(stdout, ErrorFetchingLine(pr_number, status))
                 /\ UNCHANGED prs
    /\ i' = i + 1
    /\ pc' = "loop"
    /\ UNCHANGED <<argv, exit_code, requests, compare_response, pr_number,
                   merged_prs, varsB>>

\* lines 38, 53: the loop is exhausted, or the compare failed; the list goes
\* back to __main__
Return ==
    /\ \/ pc = "return"
       \/ pc = "loop" /\ i > Len(compare_response.commits)
    /\ merged_prs' = prs
    /\ pc' = "print_pr_list"
    /\ UNCHANGED <<argv, stdout, exit_code, requests, compare_response, i,
                   pr_number, pr_responses, prs, varsB>>

\* the lines of the list, last first
PrLinesReversed(list) == [k \in 1..Len(list) |-> PrLine(list[Len(list) + 1 - k])]

\* lines 41-42: one line for each entry, in the order of the list
PrLines(list) == [k \in 1..Len(list) |-> PrLine(list[k])]

\* lines 40-42, 54
print_pr_list ==
    /\ pc = "print_pr_list"
    /\ stdout' = stdout \o PrLines(merged_prs)
    /\ pc' = "print_authors"
    /\ UNCHANGED <<argv, exit_code, requests, compare_response, i, pr_number,
                   pr_responses, prs, merged_prs, varsB>>

\* the orders in which a set can be iterated
Orders(S) ==
    {f \in [1..Cardinality(S) -> S] : \A a, b \in 1..Cardinality(S) : a # b => f[a] # f[b]}

\* the authors kept as a list, one entry for each pull request
AuthorsAsList(list) == {[k \in 1..Len(list) |-> list[k][4]]}

\* line 45: set(pr[3] for pr in prs), in each order its iteration can take
AuthorIterations(list) == Orders({list[k][4] : k \in 1..Len(list)})

\* the sort key that compares the handles as they are
RawKey(author) == author

\* line 47: key=str.casefold
SortKey(author) == casefold(author)

\* x put into a sorted list after every entry whose key is not greater
RECURSIVE Insert(_, _)
Insert(sortedList, x) ==
    IF sortedList = <<>> THEN <<x>>
    ELSE IF str_lt(SortKey(x), SortKey(Head(sortedList))) THEN <<x>> \o sortedList
    ELSE <<Head(sortedList)>> \o Insert(Tail(sortedList), x)

\* sorted(iterable, key=...): a stable sort
RECURSIVE sorted(_)
sorted(list) ==
    IF list = <<>> THEN <<>>
    ELSE Insert(sorted(SubSeq(list, 1, Len(list) - 1)), list[Len(list)])

\* lines 44-48, 55
print_authors ==
    /\ pc = "print_authors"
    /\ \E authors \in AuthorIterations(merged_prs) :
         stdout' = stdout \o <<AUTHORS_HEADER>>
                          \o [k \in 1..Len(authors) |-> AuthorLine(sorted(authors)[k])]
    /\ exit_code' = <<0>>
    /\ pc' = "done"
    /\ UNCHANGED <<argv, requests, compare_response, i, pr_number, pr_responses,
                   prs, merged_prs, varsB>>

Next ==
    \/ CheckArgs
    \/ Main
    \/ CompareResponse
    \/ ForCommit
    \/ PrResponse
    \/ Return
    \/ print_pr_list
    \/ print_authors

Spec == Init /\ [][Next]_vars

(* ------------------------------ Pipeline B ----------------------------- *)
\* pull requests the remote may list
ClosedPulls == {1, 2}

\* one page of the listing
PageContents == UNION {[1..n -> ClosedPulls] : n \in 0..MaxPerPage}

\* what the remote holds: some pages, and empty pages ever after
PageLists == UNION {[1..n -> PageContents] : n \in 0..MaxPages}

\* the remote's answer for page number p
RemotePage(p) == IF p \in 1..Len(pages) THEN pages[p] ELSE <<>>

InitB ==
    /\ IdleA
    /\ pcB = "fetch"
    /\ pages \in PageLists
    /\ page = 1
    /\ all_prs = <<>>
    /\ requestsB = <<>>

\* the fetcher asks for the same page again
SamePage(p) == p

\* the page asked for after page p
NextPage(p) == p + 1

\* the fetcher asks for the next page
RequestPage ==
    /\ pcB = "fetch"
    /\ requestsB' = Append(requestsB, page)
    /\ pcB' = "await_page"
    /\ UNCHANGED <<pages, page, all_prs, varsA>>

\* the page arrives: a failure aborts, an empty page ends the fetch, any
\* other page is accumulated
PageResponse ==
    /\ pcB = "await_page"
    /\ \E status \in Statuses :
         IF status # 200
         THEN /\ pcB' = "aborted"
              /\ UNCHANGED <<page, all_prs>>
         ELSE IF RemotePage(page) = <<>>
         THEN /\ pcB' = "returned"
              /\ UNCHANGED <<page, all_prs>>
         ELSE /\ all_prs' = all_prs \o RemotePage(page)
              /\ page' = NextPage(page)
              /\ pcB' = "fetch"
    /\ UNCHANGED <<pages, requestsB, varsA>>

NextB == RequestPage \/ PageResponse

SpecB == InitB /\ [][NextB]_vars

(* ===================== the statements that are checked ================= *)
Range(f) == {f[k] : k \in DOMAIN f}

\* the marker as the specification words it
MergeMarker ==
    <<"m","e","r","g","e"," ","p","u","l","l"," ",
      "r","e","q","u","e","s","t"," ","#">>

\* a capital letter and its small letter, either way round
CasePairs ==
    {<<UPPER[k], LOWER[k]>> : k \in 1..26} \cup {<<LOWER[k], UPPER[k]>> : k \in 1..26}

\* the same letter, whatever its case
SameLetter(a, b) == a = b \/ <<a, b>> \in CasePairs

\* "Merge pull request #<digits>" stands in msg at position p
MarkerAt(msg, p) ==
    /\ p >= 1
    /\ p + Len(MergeMarker) <= Len(msg)
    /\ \A k \in 1..Len(MergeMarker) : SameLetter(msg[p + k - 1], MergeMarker[k])
    /\ IsIn(DIGITS, msg[p + Len(MergeMarker)])

HasMarker(msg) == \E p \in 1..Len(msg) : MarkerAt(msg, p)

\* the number N written at the first occurrence of the marker
MarkedNumber(msg) ==
    LET p == CHOOSE q \in 1..Len(msg) :
                 MarkerAt(msg, q) /\ \A r \in 1..(q - 1) : ~MarkerAt(msg, r)
        a == p + Len(MergeMarker)
        e == CHOOSE z \in a..Len(msg) :
                 /\ \A y \in a..z : IsIn(DIGITS, msg[y])
                 /\ z = Len(msg) \/ ~IsIn(DIGITS, msg[z + 1])
    IN  int(SubSeq(msg, a, e))

CommitList == compare_response.commits
MessageOf(k) == CommitList[k].commit.message

\* the loop has parsed commit k
Parsed(k) == k \in 1..Len(CommitList) /\ (k < i \/ (k = i /\ pc = "await_pr"))

\* the increasing list of the members of a set of numbers
RECURSIVE Ascending(_)
Ascending(S) ==
    IF S = {} THEN <<>>
    ELSE LET least == CHOOSE x \in S : \A y \in S : x <= y
         IN  <<least>> \o Ascending(S \ {least})

\* the parsed commits that carry the marker, in commit order
ParsedMergeCommits == Ascending({k \in 1..Len(CommitList) : Parsed(k) /\ HasMarker(MessageOf(k))})

\* the lookups issued so far
Lookups == SelectSeq(requests, LAMBDA r : r.endpoint = "pulls")

\* the script is past get_merged_prs_since_release
Returned == pc \in {"print_pr_list", "print_authors", "done"}

\* the answer to the lookup made for commit k
Answered(k) == \E r \in Range(pr_responses) : r.commit = k
AnswerOf(k) == CHOOSE r \in Range(pr_responses) : r.commit = k

\* the merge commits whose lookup returned 200, in commit order
ResolvedCommits ==
    Ascending({k \in 1..Len(CommitList) :
                   /\ HasMarker(MessageOf(k))
                   /\ Answered(k)
                   /\ AnswerOf(k).status_code = 200})

\* the entry a resolved commit stands for
ExpectedEntry(k) ==
    <<AnswerOf(k).json.title, MarkedNumber(MessageOf(k)),
      AnswerOf(k).json.html_url, AnswerOf(k).json.user.login>>

ExpectedEntries ==
    LET resolved == ResolvedCommits
    IN  [j \in 1..Len(resolved) |-> ExpectedEntry(resolved[j])]

\* C1: a lookup that fails only leaves its pull request out: once the
\* function has returned after a successful compare, every merge commit of the
\* list has been looked up, and every lookup that returned 200 has its pull
\* request in the result.
C1_FailedLookupDoesNotAbort ==
    (Returned /\ compare_response.status_code = 200) =>
        LET merges == {k \in 1..Len(CommitList) : HasMarker(MessageOf(k))} IN
        /\ \A k \in merges : Answered(k)
        /\ Len(Lookups) = Cardinality(merges)
        /\ \A k \in merges :
               (Answered(k) /\ AnswerOf(k).status_code = 200)
                   => ExpectedEntry(k) \in Range(merged_prs)

\* a failed lookup was followed by a later commit's successful one
C1_Witness ==
    /\ pc = "done"
    /\ \E a, b \in Range(pr_responses) :
         /\ a.commit < b.commit
         /\ a.status_code # 200
         /\ b.status_code = 200
         /\ ExpectedEntry(b.commit) \in Range(merged_prs)

\* the status is none of the 2xx
NonSuccess(status) == status # 0 /\ status \notin 200..299

\* C2: when the compare request is answered with a non-success status, the
\* status is reported, nothing is raised, the compare request is the only
\* request ever issued, and the presenter runs with an empty list.
C2_CompareFailureYieldsEmpty ==
    NonSuccess(compare_response.status_code) =>
        /\ pc \in {"return", "print_pr_list", "print_authors", "done"}
        /\ exit_code \in {<<>>, <<0>>}
        /\ Len(requests) = 1
        /\ requests[1].endpoint = "compare"
        /\ prs = <<>>
        /\ merged_prs = <<>>
        /\ stdout[1] = ErrorComparingLine(compare_response.status_code)
        /\ pc = "done" =>
               stdout = <<ErrorComparingLine(compare_response.status_code), AUTHORS_HEADER>>

C2_Witness ==
    /\ pc = "done"
    /\ compare_response.status_code = 404
    /\ Len(stdout) = 2

\* C3: every parsed commit that carries "Merge pull request #N", in any
\* case and anywhere in the message, is looked up under exactly N, the number
\* at the first occurrence; no commit is looked up twice.
C3_ParserExtractsN ==
    /\ LET merges == ParsedMergeCommits
           lookups == Lookups
       IN  /\ Len(lookups) = Len(merges)
           /\ \A j \in 1..Len(merges) :
                  j <= Len(lookups) =>
                      lookups[j].number = MarkedNumber(MessageOf(merges[j]))
    /\ pc = "await_pr" =>
           /\ HasMarker(MessageOf(i))
           /\ pr_number = MarkedNumber(MessageOf(i))

\* a marker in another case, a marker after a line break and a message with
\* two markers have all been parsed
C3_Witness ==
    /\ pc = "await_pr"
    /\ \E p \in 2..Len(MessageOf(i)) :
         /\ MarkerAt(MessageOf(i), p)
         /\ MessageOf(i)[p] = "m"
         /\ \E q \in 1..(p - 1) : MessageOf(i)[q] = "\n"
    /\ pr_number = 9
    /\ i = 2
    /\ \E p, q \in 1..Len(MessageOf(1)) : p < q /\ MarkerAt(MessageOf(1), p) /\ MarkerAt(MessageOf(1), q)
    /\ Lookups[1].number = 42

\* C4: a commit without the marker causes no lookup, prints nothing and adds
\* nothing to the result: every lookup is for the number of a parsed commit
\* that carries the marker, and lookups, "Querying" lines and entries are no
\* more than the commits that carry it.
C4_UnmarkedCommitSkipped ==
    /\ LET merges == ParsedMergeCommits
           lookups == Lookups
       IN  /\ \A r \in Range(lookups) :
                  \E k \in Range(merges) : r.number = MarkedNumber(MessageOf(k))
           /\ Len(lookups) <= Len(merges)
           /\ Len(prs) <= Len(merges)
    /\ (pc \in {"loop", "await_pr"} /\ \A k \in 1..Len(CommitList) : ~HasMarker(MessageOf(k)))
           => stdout = <<>> /\ Len(requests) = 1

\* two commits without the marker, one of them naming a pull request
\* without "Merge", were passed over
C4_Witness ==
    /\ pc = "loop"
    /\ i = 3
    /\ ~HasMarker(MessageOf(1))
    /\ ~HasMarker(MessageOf(2))
    /\ \E p \in 1..Len(MessageOf(1)) : MessageOf(1)[p] = "#"
    /\ Len(requests) = 1
    /\ stdout = <<>>

\* where the "Authors:" header stands in stdout
HeaderAt(h) == h \in 1..Len(stdout) /\ stdout[h] = AUTHORS_HEADER

\* a line of either list
IsListLine(line) == Len(line) >= 2 /\ line[1] = "-" /\ line[2] = " "

\* C5: the run ends with one line for each resolved pull request, in the order
\* of their merge commits, all of them before the one "Authors:" header.
C5_PrLinesInCommitOrder ==
    pc = "done" =>
        LET expected == [j \in 1..Len(ExpectedEntries) |-> PrLine(ExpectedEntries[j])] IN
        \E h \in 1..Len(stdout) :
            /\ HeaderAt(h)
            /\ \A g \in 1..Len(stdout) : HeaderAt(g) => g = h
            /\ SelectSeq(SubSeq(stdout, 1, h - 1), IsListLine) = expected
            /\ \A q \in (h + 1)..Len(stdout) : stdout[q] \notin Range(expected)

\* two pull requests of different numbers were resolved and printed
C5_Witness ==
    /\ pc = "done"
    /\ Len(ExpectedEntries) = 2
    /\ ExpectedEntries[1][2] # ExpectedEntries[2][2]
    /\ \E a, b \in 1..Len(stdout) :
         /\ a < b
         /\ stdout[a] = PrLine(ExpectedEntries[1])
         /\ stdout[b] = PrLine(ExpectedEntries[2])

\* the lines printed after the "Authors:" header
AuthorLinesPrinted ==
    LET h == CHOOSE g \in 1..Len(stdout) : HeaderAt(g)
    IN  SubSeq(stdout, h + 1, Len(stdout))

\* the handle an author line names
HandleOf(line) == SubSeq(line, 4, Len(line))

\* C6: the run ends with each handle of the list printed exactly once, and
\* with no author line for a handle that is not in the list.
C6_AuthorsDeduplicated ==
    pc = "done" =>
        /\ \A k \in 1..Len(merged_prs) :
               Cardinality({q \in 1..Len(AuthorLinesPrinted) :
                                AuthorLinesPrinted[q] = AuthorLine(merged_prs[k][4])}) = 1
        /\ \A q \in 1..Len(AuthorLinesPrinted) :
               \E k \in 1..Len(merged_prs) :
                   AuthorLinesPrinted[q] = AuthorLine(merged_prs[k][4])

\* two pull requests of one author were resolved
C6_Witness ==
    /\ pc = "done"
    /\ Len(merged_prs) = 2
    /\ merged_prs[1][4] = merged_prs[2][4]
    /\ Len(AuthorLinesPrinted) = 1

\* C7: of two consecutive author lines, the case-folded handle of the second
\* is not less than that of the first.
C7_AuthorsSortedCaseInsensitive ==
    pc = "done" =>
        \A q \in 1..(Len(AuthorLinesPrinted) - 1) :
            ~str_lt(casefold(HandleOf(AuthorLinesPrinted[q + 1])),
                    casefold(HandleOf(AuthorLinesPrinted[q])))

\* "alice" was printed before "Bob", which the code points alone would put
\* first
C7_Witness ==
    /\ pc = "done"
    /\ Len(AuthorLinesPrinted) = 2
    /\ HandleOf(AuthorLinesPrinted[1]) = <<"a","l","i","c","e">>
    /\ HandleOf(AuthorLinesPrinted[2]) = <<"B","o","b">>
    /\ str_lt(HandleOf(AuthorLinesPrinted[2]), HandleOf(AuthorLinesPrinted[1]))

\* C8: started with fewer than two arguments, the script issues no request,
\* and ends with the usage text printed and a status that is not 0.
C8_MissingArgumentsExit ==
    Len(argv) - 1 < 2 =>
        /\ requests = <<>>
        /\ pc \in {"start", "exited"}
        /\ pc = "exited" =>
               /\ stdout = <<USAGE>>
               /\ Len(exit_code) = 1
               /\ exit_code[1] # 0

\* the script was given the token alone and has exited
C8_Witness ==
    /\ pc = "exited"
    /\ Len(argv) = 2
    /\ exit_code = <<1>>

\* the first page of the remote that is empty
FirstEmptyPage == CHOOSE p \in 1..(Len(pages) + 1) :
                      RemotePage(p) = <<>> /\ \A q \in 1..(p - 1) : RemotePage(q) # <<>>

\* the pages before page p, joined
RECURSIVE PagesBefore(_)
PagesBefore(p) == IF p <= 1 THEN <<>> ELSE PagesBefore(p - 1) \o RemotePage(p - 1)

\* C9: the fetcher asks for pages 1, 2, ... and for none after the first
\* empty one; when it returns it has asked for each page up to the first empty
\* one once, and holds the pages before it, joined in order.
C9_PaginationTerminates ==
    /\ Len(requestsB) <= FirstEmptyPage
    /\ \A k \in 1..Len(requestsB) : requestsB[k] = k
    /\ pcB = "returned" =>
           /\ Len(requestsB) = FirstEmptyPage
           /\ all_prs = PagesBefore(FirstEmptyPage)

\* two pages were accumulated and the fetch ended at the third, empty one
C9_Witness ==
    /\ pcB = "returned"
    /\ Len(pages) = 2
    /\ FirstEmptyPage = 3
    /\ Len(all_prs) = Len(pages[1]) + Len(pages[2])

\* C10: the list is, entry for entry and in commit order, the merge commits
\* whose lookup returned 200, each with the number written in its message:
\* while it is built, and when __main__ has it.
C10_ResultMirrorsResolvedCommits ==
    LET expected == ExpectedEntries
    IN  /\ pc \in {"loop", "await_pr", "return"} => prs = expected
        /\ Returned => merged_prs = expected

\* two commits naming the same pull request were both resolved, one of them
\* with an answer that carries another number
C10_Witness ==
    /\ pc = "done"
    /\ Len(merged_prs) = 2
    /\ merged_prs[1][2] = merged_prs[2][2]
    /\ MessageOf(1) # MessageOf(2)
    /\ \E r \in Range(pr_responses) : r.status_code = 200 /\ r.json.number # merged_prs[1][2]

====
